---- MODULE Spec2Model ----
(***************************************************************************)
(* Model of src/src/modules/downloader.py: the Downloader class.           *)
(*                                                                         *)
(* The state is the call stack of decorated method calls                   *)
(* (exceptions_handler.wrapper around login and get_post_content), the     *)
(* instagrapi client's in-memory settings, the session file and the owner  *)
(* directory on disk.  Every call to the remote service is one step whose  *)
(* outcome (return or typed exception) is chosen by the environment.       *)
(* Spec is the program with a single thread of control.  SpecShared is a   *)
(* constructed instance whose caller either runs get_post_content one call *)
(* at a time or from two threads; the second thread's call stack is        *)
(* parked in `other` and the threads switch at blocking client calls.      *)
(***************************************************************************)
EXTENDS Integers, Sequences, FiniteSets, TLC

VARIABLES phase, stack, client, file, dirFiles, calls, result, logins,
          other, shared, switches

\* the threads of the caller: the call stack of a second thread that is not
\* running, whether the caller runs get_post_content calls concurrently on
\* the instance, and the context switches so far
sched == <<other, shared, switches>>

vars == <<phase, stack, client, file, dirFiles, calls, result, logins, sched>>

(***************************************************************************)
(* Bounds of the model.                                                    *)
(***************************************************************************)
\* nesting depth of decorated calls at which the interpreter's recursion
\* guard stops a further call (RecursionError)
MaxDepth == 3
\* number of get_post_content calls the caller makes on one instance
MaxCalls == 2
\* number of context switches between two threads of the caller
MaxSwitches == 2

(***************************************************************************)
(* Program constants.                                                      *)
(***************************************************************************)
ErrorLimit == 3
ChallengeWait == 3600
RestrictedWait == 3600
TimeoutWait == 60

(***************************************************************************)
(* Exceptions.  The names are the classes the source imports.              *)
(***************************************************************************)
TimeoutErrors == {"ReadTimeoutError", "RequestsConnectionError", "ClientRequestTimeout"}

MediaGone == {"MediaUnavailable", "MediaNotFound"}

\* exceptions the remote service can raise out of a client call; "Exception"
\* stands for any class the source names nowhere
RemoteErrors ==
    {"LoginRequired", "ChallengeRequired", "PleaseWaitFewMinutes", "Exception"}
        \cup TimeoutErrors \cup MediaGone

\* the failures explored when two threads share the instance: the one that
\* starts a renewal
SharedFaults == {"LoginRequired"}

\* what a client call can raise
Faults == IF shared THEN SharedFaults ELSE RemoteErrors

\* variant: PleaseWaitFewMinutes is handled by the LoginRequired clause
Classify_RestrictedAsExpired(e) ==
    IF e \in {"LoginRequired", "PleaseWaitFewMinutes"} THEN "AuthExpired"
    ELSE IF e = "ChallengeRequired" THEN "ChallengeRequired"
    ELSE IF e \in TimeoutErrors THEN "Transient"
    ELSE "Unclassified"

\* variant: the last except clause names two of the three timeout classes
Classify_TwoTimeouts(e) ==
    IF e = "LoginRequired" THEN "AuthExpired"
    ELSE IF e = "ChallengeRequired" THEN "ChallengeRequired"
    ELSE IF e = "PleaseWaitFewMinutes" THEN "RateLimited"
    ELSE IF e \in {"ReadTimeoutError", "RequestsConnectionError"} THEN "Transient"
    ELSE "Unclassified"

\* the except clauses of the wrapper, first match wins
Classify(e) ==
    IF e = "LoginRequired" THEN "AuthExpired"
    ELSE IF e = "ChallengeRequired" THEN "ChallengeRequired"
    ELSE IF e = "PleaseWaitFewMinutes" THEN "RateLimited"
    ELSE IF e \in TimeoutErrors THEN "Transient"
    ELSE "Unclassified"

(***************************************************************************)
(* Sessions.  A session is the client's settings: the device identity      *)
(* (uuids) and the authorization the provider issued (0: none).            *)
(***************************************************************************)
Uuids == {1, 2}

NoFile == [exists |-> FALSE, uuids |-> 0, auth |-> 0]

\* Client(): a new client generates its device identity, holds no session
NewClient == [uuids |-> 1, auth |-> 0]

\* client.get_settings()
get_settings(c) == [uuids |-> c.uuids, auth |-> c.auth]

\* client.set_settings({}): everything reset, device identity regenerated
set_settings_empty(c, u) == [uuids |-> u, auth |-> 0]

\* variant: set_uuids leaves the client's settings as they are
set_uuids_Ignored(c, u) == c

\* client.set_uuids(uuids)
set_uuids(c, u) == [c EXCEPT !.uuids = u]

\* client.load_settings(path)
load_settings(c, f) == [uuids |-> f.uuids, auth |-> f.auth]

\* variant: nothing is written
dump_settings_Keep(c) == file

\* client.dump_settings(path)
dump_settings(c) == [exists |-> TRUE, uuids |-> c.uuids, auth |-> c.auth]

\* client.login(**login_args) returning: a client that holds a session is
\* already logged in and keeps it, otherwise the provider issues session n
client_login(c, n) == IF c.auth # 0 THEN c ELSE [c EXCEPT !.auth = n]

(***************************************************************************)
(* Media dispatch table (self.download_methods).                           *)
(***************************************************************************)
MediaTypes == {1, 2, 8, 11}

ProductTypes == {"", "feed", "clips", "igtv", "story"}

download_methods ==
    [k \in {<<1, "any">>, <<2, "feed">>, <<2, "clips">>, <<2, "igtv">>, <<8, "any">>} |->
        CASE k = <<1, "any">>   -> "photo_download"
          [] k = <<2, "feed">>  -> "video_download"
          [] k = <<2, "clips">> -> "clip_download"
          [] k = <<2, "igtv">>  -> "igtv_download"
          [] k = <<8, "any">>   -> "album_download"]

\* variant: the subkind is never normalised
DispatchKey_Verbatim(media_type, product_type) == <<media_type, product_type>>

\* key = (media_type, 'any' if media_type in (1, 8) else product_type)
DispatchKey(media_type, product_type) ==
    <<media_type, IF media_type \in {1, 8} THEN "any" ELSE product_type>>

\* self.download_methods.get(key); "" is None
LookupMethod(key) ==
    IF key \in DOMAIN download_methods THEN download_methods[key] ELSE ""

(***************************************************************************)
(* Frames of the call stack: one per call of a decorated method.           *)
(***************************************************************************)
Shortcodes == {"ABC123"}

Owner == "owner"

NoResponse == [post |-> "", owner |-> "", type |-> "", status |-> ""]

LoginArgs(m) == [method |-> m, shortcode |-> "", error_count |-> 0]

FetchArgs(s, n) == [method |-> "", shortcode |-> s, error_count |-> n]

\* events of one wrapper call, in program order
EvBody(a)  == [t |-> "body", m |-> a.method, s |-> a.shortcode, n |-> a.error_count]
EvSleep(n) == [t |-> "sleep", m |-> "", s |-> "", n |-> n]
EvLogin(m) == [t |-> "login", m |-> m, s |-> "", n |-> 0]
EvBack     == [t |-> "login_returned", m |-> "", s |-> "", n |-> 0]
\* the method body raised e / the recovery login raised e
EvRaise(e) == [t |-> "raise", m |-> e, s |-> "", n |-> 0]
EvLoginRaised(e) == [t |-> "login_raised", m |-> e, s |-> "", n |-> 0]

NewFrame(fn, args) ==
    [fn |-> fn, args |-> args, pc |-> "call", attempt |-> 1,
     ev |-> <<>>, exc1 |-> "none", exc |-> "none", ret |-> "none",
     response |-> NoResponse,
     \* locals of the method body
     media_type |-> 0, product_type |-> "", download_method |-> "",
     status |-> "", called |-> <<>>, listed |-> "", error |-> "",
     \* a client call of this call was issued while a relogin was under way
     raced |-> FALSE,
     \* the session file and the client's device identity when the call began
     preFile |-> file, preUuids |-> client.uuids]

Top == stack[Len(stack)]

SetTop(f) == [stack EXCEPT ![Len(stack)] = f]

Running(fn, pc) == stack # <<>> /\ Top.fn = fn /\ Top.pc = pc

\* variant: the second call sits inside the try as well
RaiseFrom_InsideTry(f, e) ==
    [f EXCEPT !.pc = "except", !.exc1 = e, !.ev = Append(@, EvRaise(e))]

\* an exception leaves the method body: inside the wrapper's try on the
\* first attempt, outside it on the second
RaiseFrom(f, e) ==
    IF f.attempt = 1
    THEN [f EXCEPT !.pc = "except", !.exc1 = e, !.ev = Append(@, EvRaise(e))]
    ELSE [f EXCEPT !.pc = "raised", !.exc = e, !.ev = Append(@, EvRaise(e))]

\* The sessions still held somewhere in the state.  Sessions are compared
\* only for equality, so the session the provider issues next is named by
\* the least number that none of them carries.
HeldAuth ==
    {client.auth, file.auth}
        \cup {stack[i].preFile.auth : i \in DOMAIN stack}
        \cup {other[i].preFile.auth : i \in DOMAIN other}

FreshAuth ==
    CHOOSE n \in 1..(Len(stack) + Len(other) + 3) :
        n \notin HeldAuth /\ \A m \in 1..(n - 1) : m \in HeldAuth

Init ==
    /\ phase = "new"
    /\ stack = <<>>
    /\ client = NewClient
    /\ file \in {NoFile} \cup {[exists |-> TRUE, uuids |-> 2, auth |-> 1]}
    /\ dirFiles \in BOOLEAN
    /\ calls = 0
    /\ result = [kind |-> "none", exc |-> "none", response |-> NoResponse]
    /\ logins = [last |-> "none", ever |-> FALSE]
    /\ other = <<>>
    /\ shared = FALSE
    /\ switches = 0

(***************************************************************************)
(* Downloader.__init__: auth_status = self.login()                         *)
(***************************************************************************)
Construct ==
    /\ phase = "new"
    /\ phase' = "constructing"
    /\ stack' = <<NewFrame("login", LoginArgs("session"))>>
    /\ UNCHANGED <<client, file, dirFiles, calls, result, logins, sched>>

\* the constructor's login has ended: 'logged_in' completes the instance,
\* anything else raises FailedAuthInstagram, an exception propagates
ConstructEnd ==
    /\ phase = "constructing"
    /\ Len(stack) = 1
    /\ Top.pc \in {"returned", "raised"}
    /\ IF Top.pc = "raised"
       THEN /\ phase' = "failed"
            /\ result' = [kind |-> "raised", exc |-> Top.exc, response |-> NoResponse]
       ELSE IF Top.ret = "logged_in"
       THEN /\ phase' = "ready"
            /\ result' = [kind |-> "returned", exc |-> "none", response |-> NoResponse]
       ELSE /\ phase' = "failed"
            /\ result' = [kind |-> "raised", exc |-> "FailedAuthInstagram", response |-> NoResponse]
    /\ stack' = <<>>
    /\ UNCHANGED <<client, file, dirFiles, calls, logins, sched>>

(***************************************************************************)
(* exceptions_handler.wrapper                                              *)
(***************************************************************************)
\* first statement of each method body
BodyStart(fn) == IF fn = "login" THEN "L_branch" ELSE "F_guard"

\* return method(self, *args, **kwargs): the first call, inside the try
WrapperCall ==
    /\ stack # <<>>
    /\ Top.pc = "call"
    /\ stack' = SetTop([Top EXCEPT !.pc = BodyStart(Top.fn),
                                   !.ev = Append(@, EvBody(Top.args))])
    /\ UNCHANGED <<phase, client, file, dirFiles, calls, result, logins, sched>>

\* the locals of the method body die with the body's frame
DropLocals(f) ==
    [f EXCEPT !.media_type = 0, !.product_type = "", !.download_method = "",
              !.status = "", !.called = <<>>, !.listed = "", !.error = ""]

\* the except clauses: the sleep of the matching clause, then either the
\* recovery login or the fall-through to the second call; an exception no
\* clause names leaves the wrapper
WrapperExcept ==
    /\ stack # <<>>
    /\ Top.pc = "except"
    /\ LET e == Top.exc1
           f == DropLocals(Top) IN
       stack' = SetTop(
         CASE Classify(e) = "AuthExpired" ->
                [f EXCEPT !.pc = "recover_relogin"]
           [] Classify(e) = "ChallengeRequired" ->
                [f EXCEPT !.pc = "recover_session",
                          !.ev = Append(@, EvSleep(ChallengeWait))]
           [] Classify(e) = "RateLimited" ->
                [f EXCEPT !.pc = "recover_relogin",
                          !.ev = Append(@, EvSleep(RestrictedWait))]
           [] Classify(e) = "Transient" ->
                [f EXCEPT !.pc = "retry",
                          !.ev = Append(@, EvSleep(TimeoutWait))]
           [] OTHER ->
                [Top EXCEPT !.pc = "raised", !.exc = e])
    /\ UNCHANGED <<phase, client, file, dirFiles, calls, result, logins, sched>>

\* variant: every recovery login is a relogin
RecoveryMethod_AlwaysRelogin(pc) == "relogin"

\* method of the login the except clause calls
RecoveryMethod(pc) == IF pc = "recover_relogin" THEN "relogin" ELSE "session"

\* variant: the recovery login is started on a thread of its own and the
\* except clause does not wait for it
WrapperRecover_Background ==
    /\ stack # <<>>
    /\ Top.pc \in {"recover_relogin", "recover_session"}
    /\ other = <<>>
    /\ LET m == RecoveryMethod(Top.pc) IN
       /\ stack' = SetTop([Top EXCEPT !.pc = "retry",
                                      !.ev = Append(@, EvLogin(m))])
       /\ other' = <<NewFrame("login", LoginArgs(m))>>
    /\ UNCHANGED <<phase, client, file, dirFiles, calls, result, logins,
                   shared, switches>>

\* self.login(method='relogin') / self.login() inside an except clause; the
\* call is itself decorated.  At the recursion limit the call raises
\* RecursionError out of the except clause.
WrapperRecover ==
    /\ stack # <<>>
    /\ Top.pc \in {"recover_relogin", "recover_session"}
    /\ LET m == RecoveryMethod(Top.pc) IN
       IF Len(stack) < MaxDepth
       THEN stack' = Append(SetTop([Top EXCEPT !.pc = "await",
                                               !.ev = Append(@, EvLogin(m))]),
                            NewFrame("login", LoginArgs(m)))
       ELSE stack' = SetTop([Top EXCEPT !.pc = "raised", !.exc = "RecursionError",
                                        !.ev = @ \o <<EvLogin(m), EvLoginRaised("RecursionError")>>])
    /\ UNCHANGED <<phase, client, file, dirFiles, calls, result, logins, sched>>

\* variant: when the recovery login raises, the failure of the first call
\* is what leaves the wrapper
WrapperResume_OriginalFailure ==
    /\ Len(stack) > 1
    /\ Top.pc \in {"returned", "raised"}
    /\ LET caller == stack[Len(stack) - 1]
           rest == SubSeq(stack, 1, Len(stack) - 2) IN
       stack' = IF Top.pc = "returned"
                THEN Append(rest, [caller EXCEPT !.pc = "retry",
                                                 !.ev = Append(@, EvBack)])
                ELSE Append(rest, [caller EXCEPT !.pc = "raised", !.exc = caller.exc1,
                                                 !.ev = Append(@, EvLoginRaised(Top.exc))])
    /\ UNCHANGED <<phase, client, file, dirFiles, calls, result, logins, sched>>

\* the recovery login has ended: its return value is dropped and the except
\* clause falls through; its exception leaves the wrapper
WrapperResume ==
    /\ Len(stack) > 1
    /\ Top.pc \in {"returned", "raised"}
    /\ LET caller == stack[Len(stack) - 1]
           rest == SubSeq(stack, 1, Len(stack) - 2) IN
       stack' = IF Top.pc = "returned"
                THEN Append(rest, [caller EXCEPT !.pc = "retry",
                                                 !.ev = Append(@, EvBack)])
                ELSE Append(rest, [caller EXCEPT !.pc = "raised", !.exc = Top.exc,
                                                 !.ev = Append(@, EvLoginRaised(Top.exc))])
    /\ UNCHANGED <<phase, client, file, dirFiles, calls, result, logins, sched>>

\* return method(self, *args, **kwargs): the second call, after the try
WrapperRetry ==
    /\ stack # <<>>
    /\ Top.pc = "retry"
    /\ stack' = SetTop([Top EXCEPT !.pc = BodyStart(Top.fn), !.attempt = 2,
                                   !.ev = Append(@, EvBody(Top.args))])
    /\ UNCHANGED <<phase, client, file, dirFiles, calls, result, logins, sched>>

(***************************************************************************)
(* Downloader.login (body)                                                 *)
(***************************************************************************)
\* the three branches up to the provider login
LoginBranch ==
    /\ Running("login", "L_branch")
    /\ IF Top.args.method = "session" /\ file.exists
       THEN /\ client' = load_settings(client, file)
            /\ stack' = SetTop([Top EXCEPT !.pc = "L_login_session",
                                           !.called = Append(@, "load_settings")])
       ELSE IF Top.args.method = "relogin"
       THEN /\ \E u \in Uuids :
                 LET old_session == get_settings(client) IN
                 client' = set_uuids(set_settings_empty(client, u), old_session.uuids)
            /\ stack' = SetTop([Top EXCEPT !.pc = "L_login_relogin"])
       ELSE /\ client' = client
            /\ stack' = SetTop([Top EXCEPT !.pc = "L_login_new"])
    /\ UNCHANGED <<phase, file, dirFiles, calls, result, logins, sched>>

\* the outcome of an execution of the login body, for the instance
LoginFailed == [logins EXCEPT !.last = "failed"]

LoginPassed == [last |-> "passed", ever |-> TRUE]

\* self.client.login(**login_args)
LoginProvider ==
    /\ stack # <<>>
    /\ Top.fn = "login"
    /\ Top.pc \in {"L_login_session", "L_login_relogin", "L_login_new"}
    /\ \/ /\ client' = client_login(client, FreshAuth)
          /\ stack' = SetTop([Top EXCEPT
                         !.pc = IF Top.pc = "L_login_session" THEN "L_check" ELSE "L_dump",
                         !.called = Append(@, "login")])
          /\ logins' = logins
       \/ /\ \E e \in Faults : stack' = SetTop(RaiseFrom(Top, e))
          /\ client' = client
          /\ logins' = LoginFailed
    /\ UNCHANGED <<phase, file, dirFiles, calls, result, sched>>

\* self.client.dump_settings(self.configuration['session-file'])
LoginDump ==
    /\ Running("login", "L_dump")
    /\ file' = dump_settings(client)
    /\ stack' = SetTop([Top EXCEPT !.pc = "L_check",
                                   !.called = Append(@, "dump_settings")])
    /\ UNCHANGED <<phase, client, dirFiles, calls, result, logins, sched>>

\* variant: a failure of the verification read is swallowed
LoginCheck_Swallow ==
    /\ Running("login", "L_check")
    /\ \/ /\ stack' = SetTop([Top EXCEPT !.pc = "returned", !.ret = "logged_in",
                                         !.called = Append(@, "get_timeline_feed")])
          /\ logins' = LoginPassed
       \/ /\ stack' = SetTop([Top EXCEPT !.pc = "returned", !.ret = "logged_in"])
          /\ logins' = LoginFailed
    /\ UNCHANGED <<phase, client, file, dirFiles, calls, result, sched>>

\* self.client.get_timeline_feed(); return 'logged_in'
LoginCheck ==
    /\ Running("login", "L_check")
    /\ \/ /\ stack' = SetTop([Top EXCEPT !.pc = "returned", !.ret = "logged_in",
                                         !.called = Append(@, "get_timeline_feed")])
          /\ logins' = LoginPassed
       \/ /\ \E e \in Faults : stack' = SetTop(RaiseFrom(Top, e))
          /\ logins' = LoginFailed
    /\ UNCHANGED <<phase, client, file, dirFiles, calls, result, sched>>

(***************************************************************************)
(* Downloader.get_post_content (body)                                      *)
(***************************************************************************)
ErrorCounts == {0, ErrorLimit, ErrorLimit + 1}

\* Python truthiness of a str-or-None local
Truthy(v) == v # ""

\* the response of the except (MediaUnavailable, MediaNotFound) clause
NotFoundResponse(shortcode) ==
    [post |-> shortcode, owner |-> "undefined", type |-> "undefined",
     status |-> "source_not_found"]

\* variant: the type is the product_type as reported, without a default
BuildResponse_NoDefault(shortcode, product_type, status, listing) ==
    [post |-> shortcode,
     owner |-> Owner,
     type |-> product_type,
     status |-> IF listing
                THEN (IF Truthy(status) THEN status ELSE "completed")
                ELSE (IF Truthy(status) THEN status ELSE "failed")]

\* the response built after os.listdir(path)
BuildResponse(shortcode, product_type, status, listing) ==
    [post |-> shortcode,
     owner |-> Owner,
     type |-> IF Truthy(product_type) THEN product_type ELSE "photo",
     status |-> IF listing
                THEN (IF Truthy(status) THEN status ELSE "completed")
                ELSE (IF Truthy(status) THEN status ELSE "failed")]

\* variant: the except clause names MediaNotFound only
RaiseInTry_NotFoundOnly(f, e) ==
    IF e = "MediaNotFound"
    THEN [f EXCEPT !.pc = "returned", !.ret = "dict", !.error = e,
                   !.response = NotFoundResponse(f.args.shortcode)]
    ELSE RaiseFrom(f, e)

\* an exception raised inside the body's try block
RaiseInTry(f, e) ==
    IF e \in MediaGone
    THEN [f EXCEPT !.pc = "returned", !.ret = "dict", !.error = e,
                   !.response = NotFoundResponse(f.args.shortcode)]
    ELSE RaiseFrom(f, e)

\* variant: if error_count >= 3
FetchGuard_AtLimit ==
    /\ Running("get_post_content", "F_guard")
    /\ stack' = SetTop(IF Top.args.error_count >= ErrorLimit
                       THEN RaiseFrom(Top, "FailedDownloadPost")
                       ELSE [Top EXCEPT !.pc = "F_resolve"])
    /\ UNCHANGED <<phase, client, file, dirFiles, calls, result, logins, sched>>

\* a relogin of the other thread has reset the client's settings and its
\* provider login has not completed
RenewInProgress ==
    \E i \in DOMAIN other :
        /\ other[i].fn = "login"
        /\ other[i].args.method = "relogin"
        /\ other[i].pc = "L_login_relogin"

\* a call of the client made by the body of get_post_content
ClientCall(f, name) ==
    [f EXCEPT !.called = Append(@, name), !.raced = @ \/ RenewInProgress]

\* if error_count > 3: raise FailedDownloadPost
FetchGuard ==
    /\ Running("get_post_content", "F_guard")
    /\ stack' = SetTop(IF Top.args.error_count > ErrorLimit
                       THEN RaiseFrom(Top, "FailedDownloadPost")
                       ELSE [Top EXCEPT !.pc = "F_resolve"])
    /\ UNCHANGED <<phase, client, file, dirFiles, calls, result, logins, sched>>

\* media_pk = self.client.media_pk_from_code(code=shortcode)
FetchResolve ==
    /\ Running("get_post_content", "F_resolve")
    /\ LET f == ClientCall(Top, "media_pk_from_code") IN
       \/ stack' = SetTop([f EXCEPT !.pc = "F_info"])
       \/ \E e \in Faults : stack' = SetTop(RaiseInTry(f, e))
    /\ UNCHANGED <<phase, client, file, dirFiles, calls, result, logins, sched>>

\* media_info = self.client.media_info(media_pk=media_pk).dict() up to the
\* choice of the download method and os.makedirs(path, exist_ok=True)
FetchInfo ==
    /\ Running("get_post_content", "F_info")
    /\ LET f == ClientCall(Top, "media_info") IN
       \/ \E mt \in MediaTypes, pt \in ProductTypes :
            LET key == DispatchKey(mt, pt)
                download_method == LookupMethod(key) IN
            stack' = SetTop([f EXCEPT !.pc = "F_download",
                                      !.media_type = mt, !.product_type = pt,
                                      !.download_method = download_method,
                                      !.called = Append(@, "makedirs")])
       \/ \E e \in Faults : stack' = SetTop(RaiseInTry(f, e))
    /\ UNCHANGED <<phase, client, file, dirFiles, calls, result, logins, sched>>

\* if download_method: download_method(media_pk=media_pk, folder=path)
\* the strategy may leave files in the owner directory, also when it raises
FetchDownload ==
    /\ Running("get_post_content", "F_download")
    /\ IF Truthy(Top.download_method)
       THEN LET f == ClientCall(Top, Top.download_method) IN
            /\ dirFiles' \in {dirFiles, TRUE}
            /\ \/ stack' = SetTop([f EXCEPT !.pc = "F_list", !.status = "completed"])
               \/ \E e \in Faults : stack' = SetTop(RaiseInTry(f, e))
       ELSE /\ stack' = SetTop([Top EXCEPT !.pc = "F_list", !.status = "not_supported"])
            /\ dirFiles' = dirFiles
    /\ UNCHANGED <<phase, client, file, calls, result, logins, sched>>

\* if os.listdir(path): ... else: ...; return response
FetchList ==
    /\ Running("get_post_content", "F_list")
    /\ stack' = SetTop([Top EXCEPT
            !.pc = "returned", !.ret = "dict",
            !.called = Append(@, "listdir"),
            !.listed = IF dirFiles THEN "files" ELSE "empty",
            !.response = BuildResponse(Top.args.shortcode, Top.product_type,
                                       Top.status, dirFiles)])
    /\ UNCHANGED <<phase, client, file, dirFiles, calls, result, logins, sched>>

(***************************************************************************)
(* The caller: get_post_content(shortcode, error_count) on the instance.   *)
(***************************************************************************)
Fetch ==
    /\ ~shared
    /\ phase = "ready"
    /\ calls < MaxCalls
    /\ \E s \in Shortcodes, n \in ErrorCounts :
         stack' = <<NewFrame("get_post_content", FetchArgs(s, n))>>
    /\ phase' = "fetching"
    /\ calls' = calls + 1
    /\ result' = [kind |-> "none", exc |-> "none", response |-> NoResponse]
    /\ UNCHANGED <<client, file, dirFiles, logins, sched>>

FetchEnd ==
    /\ phase = "fetching"
    /\ Len(stack) = 1
    /\ Top.pc \in {"returned", "raised"}
    /\ result' = IF Top.pc = "returned"
                 THEN [kind |-> "returned", exc |-> "none", response |-> Top.response]
                 ELSE [kind |-> "raised", exc |-> Top.exc, response |-> NoResponse]
    /\ phase' = IF other = <<>> THEN "ready" ELSE "fetching"
    /\ stack' = <<>>
    /\ UNCHANGED <<client, file, dirFiles, calls, logins, sched>>

(***************************************************************************)
(* Two threads of the caller on one instance.                              *)
(***************************************************************************)
\* the steps that wait for the remote service
BlockingSteps ==
    {"L_login_session", "L_login_relogin", "L_login_new", "L_check",
     "F_resolve", "F_info", "F_download"}

\* the running thread is suspended, while it waits for the remote service or
\* when it has nothing to run, and the other one runs
Switch ==
    /\ shared \/ other # <<>>
    /\ IF stack = <<>> THEN other # <<>> ELSE Top.pc \in BlockingSteps
    /\ switches < MaxSwitches
    /\ stack' = other
    /\ other' = stack
    /\ switches' = switches + 1
    /\ UNCHANGED <<phase, client, file, dirFiles, calls, result, logins, shared>>

\* the two threads of a caller that shares the instance
Threads == {"first", "second"}

\* a thread that is not in a call calls get_post_content, whether or not the
\* call of the other thread has ended; each thread makes one call
FetchConcurrent ==
    /\ shared
    /\ phase \in {"ready", "fetching"}
    /\ stack = <<>>
    /\ calls < Cardinality(Threads)
    /\ \E s \in Shortcodes, n \in ErrorCounts :
         stack' = <<NewFrame("get_post_content", FetchArgs(s, n))>>
    /\ phase' = "fetching"
    /\ calls' = calls + 1
    /\ result' = [kind |-> "none", exc |-> "none", response |-> NoResponse]
    /\ UNCHANGED <<client, file, dirFiles, logins, sched>>

Next ==
    \/ Construct
    \/ ConstructEnd
    \/ WrapperCall
    \/ WrapperExcept
    \/ WrapperRecover
    \/ WrapperResume
    \/ WrapperRetry
    \/ LoginBranch
    \/ LoginProvider
    \/ LoginDump
    \/ LoginCheck
    \/ FetchGuard
    \/ FetchResolve
    \/ FetchInfo
    \/ FetchDownload
    \/ FetchList
    \/ Fetch
    \/ FetchEnd

Spec == Init /\ [][Next]_vars

\* an instance whose constructor has completed from an existing session
\* file, used by a caller that either runs its calls one at a time or from
\* two threads
InitShared ==
    /\ phase = "ready"
    /\ stack = <<>>
    /\ client = [uuids |-> 2, auth |-> 1]
    /\ file = [exists |-> TRUE, uuids |-> 2, auth |-> 1]
    /\ dirFiles \in BOOLEAN
    /\ calls = 0
    /\ result = [kind |-> "returned", exc |-> "none", response |-> NoResponse]
    /\ logins = [last |-> "passed", ever |-> TRUE]
    /\ other = <<>>
    /\ shared \in BOOLEAN
    /\ switches = 0

NextShared ==
    \/ WrapperCall
    \/ WrapperExcept
    \/ WrapperRecover
    \/ WrapperResume
    \/ WrapperRetry
    \/ LoginBranch
    \/ LoginProvider
    \/ LoginDump
    \/ LoginCheck
    \/ FetchGuard
    \/ FetchResolve
    \/ FetchInfo
    \/ FetchDownload
    \/ FetchList
    \/ Fetch
    \/ FetchEnd
    \/ Switch
    \/ FetchConcurrent

SpecShared == InitShared /\ [][NextShared]_vars

(***************************************************************************)
(* Properties.                                                             *)
(***************************************************************************)
Count(ev, t) == Cardinality({i \in DOMAIN ev : ev[i].t = t})

Ended(f) == f.pc \in {"returned", "raised"}

\* the waits and login calls of one wrapper call, in order
RecoverySteps(ev) == SelectSeq(ev, LAMBDA x : x.t \in {"sleep", "login"})

Sleep(n) == [t |-> "sleep", m |-> "", s |-> "", n |-> n]

LoginCall(m) == [t |-> "login", m |-> m, s |-> "", n |-> 0]

Transients == {"ReadTimeoutError", "RequestsConnectionError", "ClientRequestTimeout"}

Classified == {"LoginRequired", "ChallengeRequired", "PleaseWaitFewMinutes"} \cup Transients

\* the recovery the classification table lists for a failure
ListedRecovery(e) ==
    CASE e = "LoginRequired"        -> <<LoginCall("relogin")>>
      [] e = "ChallengeRequired"    -> <<Sleep(3600), LoginCall("session")>>
      [] e = "PleaseWaitFewMinutes" -> <<Sleep(3600), LoginCall("relogin")>>
      [] e \in Transients            -> <<Sleep(60)>>
      [] OTHER                      -> <<>>

IsFetch(f) == f.fn = "get_post_content"

\* at most two invocations of the body, each with the call's arguments
SameArgsTwice(f) ==
    /\ Count(f.ev, "body") <= 2
    /\ \A i \in DOMAIN f.ev :
         f.ev[i].t = "body" =>
            /\ f.ev[i].s = f.args.shortcode
            /\ f.ev[i].n = f.args.error_count
            /\ f.ev[i].m = f.args.method

\* a failure of the second invocation is the exception of the call
SecondFailurePropagates(f) ==
    (f.pc = "raised" /\ Count(f.ev, "body") = 2) =>
        /\ f.ev[Len(f.ev)].t = "raise"
        /\ f.exc = f.ev[Len(f.ev)].m

\* C1 as stated: single-retry contract of the wrapper around get_post_content.
\* Per call the body is invoked once; after a classified failure of that
\* attempt the listed recovery runs and the body is invoked exactly once
\* more with the same arguments; after a success or an unclassified failure
\* the body was invoked exactly once with no wait and no login; never a
\* third invocation; a failure of the second attempt propagates unchanged.
C1_SingleRetryAlways ==
    \A i \in DOMAIN stack :
      LET f == stack[i] IN
      IsFetch(f) =>
        /\ SameArgsTwice(f)
        /\ SecondFailurePropagates(f)
        /\ Ended(f) =>
             IF f.exc1 \in Classified
             THEN /\ RecoverySteps(f.ev) = ListedRecovery(f.exc1)
                  /\ Count(f.ev, "body") = 2
             ELSE /\ RecoverySteps(f.ev) = <<>>
                  /\ Count(f.ev, "body") = 1

\* C1 amended: as C1, but the second invocation happens exactly when the
\* recovery completes; when the recovery login raises, the body has been
\* invoked once only and the login's exception is the exception of the call.
C1_SingleRetryIfRecovered ==
    \A i \in DOMAIN stack :
      LET f == stack[i] IN
      IsFetch(f) =>
        /\ SameArgsTwice(f)
        /\ SecondFailurePropagates(f)
        /\ Ended(f) =>
             IF f.exc1 \in Classified
             THEN /\ RecoverySteps(f.ev) = ListedRecovery(f.exc1)
                  /\ IF Count(f.ev, "login_raised") = 0
                     THEN Count(f.ev, "body") = 2
                     ELSE /\ Count(f.ev, "body") = 1
                          /\ f.pc = "raised"
                          /\ f.ev[Len(f.ev)].t = "login_raised"
                          /\ f.exc = f.ev[Len(f.ev)].m
             ELSE /\ RecoverySteps(f.ev) = <<>>
                  /\ Count(f.ev, "body") = 1

\* a fetch whose first attempt raised LoginRequired has ended after its
\* recovery login returned and its second attempt failed
C1_Witness ==
    /\ phase = "fetching"
    /\ Len(stack) = 1
    /\ Top.pc = "raised"
    /\ Top.exc1 = "LoginRequired"
    /\ Count(Top.ev, "login_returned") = 1
    /\ Count(Top.ev, "body") = 2

\* C2 as stated: no unbounded retry at the wrapper layer.  One call of a
\* decorated method performs a bounded number of recovery logins and ends on
\* its own account: the chain of nested recovery logins never grows until
\* the interpreter's recursion guard is what ends it.
C2_RecoveryBounded ==
    \A i \in DOMAIN stack : stack[i].exc # "RecursionError"

\* C3: a Transient failure of the first attempt is followed by one 60 second
\* sleep, no login, and exactly one retry; a failure of the retry ends the
\* call with that failure: no third attempt, no second wait.
C3_TransientOneRetry ==
    \A i \in DOMAIN stack :
      LET f == stack[i] IN
      (f.exc1 \in Transients /\ f.pc # "except") =>
        /\ Len(f.ev) >= 3
        /\ f.ev[1].t = "body"
        /\ f.ev[2].t = "raise" /\ f.ev[2].m = f.exc1
        /\ f.ev[3] = Sleep(60)
        /\ i = Len(stack)
        /\ IF f.pc = "retry"
           THEN Len(f.ev) = 3
           ELSE /\ Len(f.ev) \in {4, 5}
                /\ f.ev[4].t = "body"
                /\ f.attempt = 2
                /\ Len(f.ev) = 5 <=> f.pc = "raised"
                /\ Len(f.ev) = 5 => f.ev[5].t = "raise" /\ f.exc = f.ev[5].m

\* a fetch whose two attempts both raised a timeout has ended with the
\* second timeout
C3_Witness ==
    /\ phase = "fetching"
    /\ Len(stack) = 1
    /\ Top.pc = "raised"
    /\ Top.exc1 = "ReadTimeoutError"
    /\ Top.exc = "ClientRequestTimeout"
    /\ Count(Top.ev, "sleep") = 1

\* the frame above frame i is a login called with method m
RecoveryLoginRuns(i, m) ==
    /\ i < Len(stack)
    /\ stack[i + 1].fn = "login"
    /\ stack[i + 1].args.method = m

C5_RenewRecoveries ==
    \A i \in DOMAIN stack :
      LET f == stack[i]
          k == IF f.exc1 = "LoginRequired" THEN 3 ELSE 4 IN
      (IsFetch(f) /\ f.exc1 \in {"LoginRequired", "PleaseWaitFewMinutes"}
                  /\ f.pc # "except") =>
        /\ Len(f.ev) >= k - 1
        /\ f.ev[1].t = "body"
        /\ f.ev[2].t = "raise"
        /\ IF f.exc1 = "LoginRequired"
           THEN Count(f.ev, "sleep") = 0
           ELSE f.ev[3] = Sleep(3600) /\ Count(f.ev, "sleep") = 1
        /\ Count(f.ev, "login") <= 1
        /\ Count(f.ev, "body") <= 2
        /\ IF f.pc = "recover_relogin"
           THEN Len(f.ev) = k - 1
           ELSE f.ev[k] = LoginCall("relogin")
        /\ f.pc = "await" =>
             /\ Len(f.ev) = k
             /\ RecoveryLoginRuns(i, "relogin")
        /\ Count(f.ev, "body") = 2 =>
             /\ f.ev[k + 1].t = "login_returned"
             /\ f.ev[k + 2].t = "body"
             /\ i = Len(stack)

\* a fetch is in its retry after PleaseWaitFewMinutes, the wait and the
\* relogin
C5_Witness ==
    /\ phase = "fetching"
    /\ Len(stack) = 1
    /\ Top.exc1 = "PleaseWaitFewMinutes"
    /\ Top.attempt = 2
    /\ Top.pc = "F_download"
    /\ Count(Top.ev, "login_returned") = 1

\* C6: a get_post_content call with error_count > 3 raises FailedDownloadPost
\* before any remote call or directory creation, and the wrapper neither
\* waits nor logs in nor retries for it; a call with error_count <= 3 passes
\* the guard and goes on to the resolution of the shortcode.
C6_BudgetGuard ==
    \A i \in DOMAIN stack :
      LET f == stack[i] IN
      IsFetch(f) =>
        IF f.args.error_count > 3
        THEN /\ f.pc \in {"call", "F_guard", "except", "raised"}
             /\ f.called = <<>>
             /\ i = Len(stack)
             /\ RecoverySteps(f.ev) = <<>>
             /\ Count(f.ev, "body") <= 1
             /\ f.attempt = 1
             /\ f.pc \in {"except", "raised"} =>
                  /\ f.exc1 = "FailedDownloadPost"
                  /\ Len(f.ev) = 2
                  /\ f.ev[2].t = "raise" /\ f.ev[2].m = "FailedDownloadPost"
             /\ f.pc = "raised" => f.exc = "FailedDownloadPost"
        ELSE /\ f.exc1 # "FailedDownloadPost"
             /\ f.exc # "FailedDownloadPost"
             /\ f.pc = "F_resolve" => f.called = <<>>
             /\ f.pc \in {"F_info", "F_download", "F_list"} =>
                  f.called[1] = "media_pk_from_code"
             /\ (f.pc = "returned" /\ f.attempt = 1 /\ f.exc1 = "none") =>
                  f.called[1] = "media_pk_from_code"

\* a call with error_count = 4 has ended with FailedDownloadPost
C6_Witness ==
    /\ phase = "fetching"
    /\ Len(stack) = 1
    /\ Top.args.error_count = 4
    /\ Top.pc = "raised"
    /\ Top.exc = "FailedDownloadPost"

Strategies ==
    {"photo_download", "video_download", "clip_download", "igtv_download",
     "album_download"}

\* the download strategies one execution of the body has called
StrategyCalls(f) == SelectSeq(f.called, LAMBDA c : c \in Strategies)

\* C7 as stated: when a download strategy was executed and the owner
\* directory is empty when listed, the returned status is 'failed', never
\* 'completed'; 'completed' is returned only when a strategy ran and the
\* directory is not empty.
C7_EmptyDirectoryFails ==
    \A i \in DOMAIN stack :
      LET f == stack[i] IN
      (IsFetch(f) /\ f.pc = "returned" /\ f.listed # "") =>
        /\ (StrategyCalls(f) # <<>> /\ f.listed = "empty") =>
              f.response.status = "failed"
        /\ f.response.status = "completed" =>
              (StrategyCalls(f) # <<>> /\ f.listed = "files")

\* what the dispatch table maps a supported key to
MappedStrategy(key) ==
    CASE key = <<1, "any">>   -> "photo_download"
      [] key = <<2, "feed">>  -> "video_download"
      [] key = <<2, "clips">> -> "clip_download"
      [] key = <<2, "igtv">>  -> "igtv_download"
      [] key = <<8, "any">>   -> "album_download"
      [] OTHER                -> "none"

\* C8: in one execution of the get_post_content body the lookup key is
\* (kind, 'any') for kind 1 or 8 and (kind, product_type) otherwise; a
\* download strategy is called iff the key is one of the five table entries,
\* and then the mapped strategy, once; for any other key no download call is
\* made and the call returns status 'not_supported', whatever the directory
\* holds.
C8_Dispatch ==
    \A i \in DOMAIN stack :
      LET f == stack[i]
          key == <<f.media_type,
                   IF f.media_type \in {1, 8} THEN "any" ELSE f.product_type>> IN
      (IsFetch(f) /\ f.media_type # 0 /\ f.pc # "F_download") =>
        IF MappedStrategy(key) # "none"
        THEN /\ StrategyCalls(f) = <<MappedStrategy(key)>>
             /\ f.response.status # "not_supported"
        ELSE /\ StrategyCalls(f) = <<>>
             /\ f.pc \in {"F_list", "returned"}
             /\ f.pc = "returned" => f.response.status = "not_supported"

\* a post of an unsupported kind returned 'not_supported' with files in the
\* owner directory
C8_Witness ==
    /\ phase = "fetching"
    /\ Len(stack) = 1
    /\ Top.pc = "returned"
    /\ Top.media_type = 2
    /\ Top.product_type = "story"
    /\ Top.listed = "files"
    /\ Top.response.status = "not_supported"

\* C9: when the resolution of the shortcode (media_pk_from_code or
\* media_info) raises MediaUnavailable or MediaNotFound, get_post_content
\* returns {post: shortcode, owner: 'undefined', type: 'undefined',
\* status: 'source_not_found'}; the exception never leaves the body, and
\* the wrapper does nothing after that body invocation.
C9_SourceNotFound ==
    \A i \in DOMAIN stack :
      LET f == stack[i] IN
      IsFetch(f) =>
        /\ \A j \in DOMAIN f.ev :
             f.ev[j].t = "raise" => f.ev[j].m \notin {"MediaUnavailable", "MediaNotFound"}
        /\ f.exc1 \notin {"MediaUnavailable", "MediaNotFound"}
        /\ (f.error # "" /\ StrategyCalls(f) = <<>>) =>
             /\ f.error \in {"MediaUnavailable", "MediaNotFound"}
             /\ f.called \in {<<"media_pk_from_code">>,
                              <<"media_pk_from_code", "media_info">>}
             /\ f.pc = "returned"
             /\ f.ret = "dict"
             /\ f.exc = "none"
             /\ f.response = [post |-> f.args.shortcode, owner |-> "undefined",
                              type |-> "undefined", status |-> "source_not_found"]
             /\ f.ev[Len(f.ev)].t = "body"
             /\ i = Len(stack)

\* a first attempt with error_count = 3 returned source_not_found after
\* media_info raised MediaUnavailable, with files in the owner directory
C9_Witness ==
    /\ phase = "fetching"
    /\ Len(stack) = 1
    /\ Top.pc = "returned"
    /\ Top.error = "MediaUnavailable"
    /\ Top.called = <<"media_pk_from_code", "media_info">>
    /\ Top.args.error_count = 3
    /\ dirFiles
    /\ Top.response.status = "source_not_found"

\* C10: when login(method='relogin') returns, the session file holds a
\* session that differs from the one it held when the call began, with the
\* device identity (uuids) the client held when the call began.
C10_RenewReplacesSession ==
    \A i \in DOMAIN stack :
      LET f == stack[i] IN
      (f.fn = "login" /\ f.args.method = "relogin" /\ f.pc = "returned") =>
        /\ file.exists
        /\ file # f.preFile
        /\ file.auth # f.preFile.auth
        /\ file.auth # 0
        /\ file.uuids = f.preUuids

\* the relogin a fetch called for has returned, and a session file existed
\* before it
C10_Witness ==
    /\ phase = "fetching"
    /\ Len(stack) = 2
    /\ Top.fn = "login"
    /\ Top.args.method = "relogin"
    /\ Top.pc = "returned"
    /\ Top.preFile.exists

\* a FetchOutcome with every field set and a status of the enumeration
WellFormed(r) ==
    /\ r.post # "" /\ r.owner # "" /\ r.type # ""
    /\ r.status \in {"completed", "not_supported", "failed", "source_not_found"}

LastEvent(f) == f.ev[Len(f.ev)]

\* C11 as stated: a get_post_content call that ends either returns a
\* well-formed FetchOutcome or ends in an authentication fatal (the exception
\* of a recovery login) or in FailedDownloadPost; a failure of its own remote
\* content calls (resolve, metadata, download) never leaves it.
C11_OutcomeOrFatal ==
    \A i \in DOMAIN stack :
      LET f == stack[i] IN
      (IsFetch(f) /\ Ended(f)) =>
        IF f.pc = "returned"
        THEN f.ret = "dict" /\ WellFormed(f.response)
        ELSE \/ f.exc = "FailedDownloadPost"
             \/ LastEvent(f).t = "login_raised"

\* C11 amended: a get_post_content call that ends either returns a
\* well-formed FetchOutcome or raises; what it raises is FailedDownloadPost,
\* the exception of a recovery login, or the failure of one of its own
\* remote content calls when that failure is unclassified (other than
\* MediaUnavailable and MediaNotFound, which never leave it) or is the
\* failure of the second attempt.
C11_OutcomeOrPropagated ==
    \A i \in DOMAIN stack :
      LET f == stack[i] IN
      (IsFetch(f) /\ Ended(f)) =>
        IF f.pc = "returned"
        THEN f.ret = "dict" /\ WellFormed(f.response) /\ f.exc = "none"
        ELSE /\ f.ret = "none"
             /\ f.exc # "none"
             /\ \/ f.exc = "FailedDownloadPost" /\ f.called = <<>>
                \/ LastEvent(f).t = "login_raised" /\ f.exc = LastEvent(f).m
                \/ /\ LastEvent(f).t = "raise"
                   /\ f.exc = LastEvent(f).m
                   /\ f.called # <<>>
                   /\ f.exc \notin {"MediaUnavailable", "MediaNotFound"}
                   /\ f.attempt = 2 \/ f.exc \notin Classified

\* a first attempt returned a photo post whose metadata carries no
\* product_type
C11_Witness ==
    /\ phase = "fetching"
    /\ Len(stack) = 1
    /\ Top.pc = "returned"
    /\ Top.media_type = 1
    /\ Top.product_type = ""
    /\ Top.response.type = "photo"

IsLogin(f) == f.fn = "login"

\* C12 as stated: login does not retry itself.  When a step of a login call
\* raises, the exception goes to login's caller: the wrapper of that call
\* performs no wait and no further login, and the login body is not executed
\* a second time inside that call.
C12_LoginNoSelfRetry ==
    \A i \in DOMAIN stack :
      LET f == stack[i] IN
      IsLogin(f) =>
        /\ Count(f.ev, "body") <= 1
        /\ RecoverySteps(f.ev) = <<>>
        /\ f.exc1 # "none" => (f.pc \in {"except", "raised"} /\ f.exc \in {"none", f.exc1})

\* the body execution that returned ran the provider login and, after it,
\* the verification read
VerifiedReturn(f) ==
    /\ f.ret = "logged_in"
    /\ Len(f.called) >= 2
    /\ f.called[Len(f.called)] = "get_timeline_feed"
    /\ \E j \in DOMAIN f.called : f.called[j] = "login"
    /\ Count(f.ev, "body") = f.attempt

\* C13 as stated: login returns 'logged_in' only after, in the same
\* execution of its body, the provider login and then the verification read
\* succeeded; so the constructor completes, and every execution of the
\* get_post_content body starts, on an instance whose last login passed the
\* verification.
C13_VerifiedBeforeUse ==
    /\ \A i \in DOMAIN stack :
         LET f == stack[i] IN
         /\ (IsLogin(f) /\ (f.pc = "returned" \/ f.ret # "none")) => VerifiedReturn(f)
         /\ (IsFetch(f) /\ f.pc \in {"call", "F_guard"}) => logins.last = "passed"
    /\ phase = "ready" => (logins.ever /\ (calls = 0 => logins.last = "passed"))

\* C13 amended: as C13 for login and for the constructor; of the executions
\* of the get_post_content body, those of the first call on the instance and
\* every retry that follows a recovery login start on an instance whose last
\* login passed the verification (a later call can start after the recovery
\* login of an earlier call failed).
C13_VerifiedBeforeFirstUse ==
    /\ \A i \in DOMAIN stack :
         LET f == stack[i] IN
         /\ (IsLogin(f) /\ (f.pc = "returned" \/ f.ret # "none")) => VerifiedReturn(f)
         /\ (IsFetch(f) /\ f.pc \in {"call", "F_guard"}
               /\ (calls = 1 \/ Count(f.ev, "login_returned") = 1)) =>
              logins.last = "passed"
    /\ phase = "ready" => (logins.ever /\ (calls = 0 => logins.last = "passed"))

\* the constructor's login has returned 'logged_in' from its second attempt,
\* after the first attempt failed the verification read
C13_Witness ==
    /\ phase = "constructing"
    /\ Len(stack) = 1
    /\ Top.pc = "returned"
    /\ Top.attempt = 2
    /\ Top.exc1 = "ReadTimeoutError"
    /\ Top.called = <<"load_settings", "login", "get_timeline_feed">>
    /\ logins.last = "passed"


\* the client's in-memory session is the persisted one
SameSession(c, f) == f.exists /\ c.uuids = f.uuids /\ c.auth = f.auth

\* C14 as stated: a renewal is atomic.  After a login(method='relogin') call
\* has ended, by return or by exception, the client's in-memory session and
\* the session file hold the same session (both the old one or both the new
\* one); the client is never left with a cleared session while the file
\* still holds the old one.
C14_RenewAtomic ==
    \A i \in DOMAIN stack :
      LET f == stack[i] IN
      (IsLogin(f) /\ f.args.method = "relogin" /\ Ended(f)) =>
        SameSession(client, file)

\* C15 as stated: with a session file present, a login(method='session')
\* call that returns 'logged_in' has loaded the file before the provider
\* login and has not written the file during the call: the file after the
\* call is the file before it.
C15_ResumeKeepsFile ==
    \A i \in DOMAIN stack :
      LET f == stack[i] IN
      (IsLogin(f) /\ f.args.method = "session" /\ f.preFile.exists
                  /\ f.pc = "returned") =>
        /\ f.called = <<"load_settings", "login", "get_timeline_feed">>
        /\ file = f.preFile

\* C16 as stated: the session file is written only as part of a successful
\* login.  A login call that ends by raising, a failure of the verification
\* read included, leaves the file as it was when the call began.
C16_FailedLoginKeepsFile ==
    \A i \in DOMAIN stack :
      LET f == stack[i] IN
      (IsLogin(f) /\ f.pc = "raised") => file = f.preFile

\* C17 as stated: a login with method 'relogin' starts only when an earlier
\* login on the instance has returned 'logged_in'; never while the instance
\* is unauthenticated or still in its first login.
C17_RenewOnlyWhenAuthenticated ==
    \A i \in DOMAIN stack :
      LET f == stack[i] IN
      (IsLogin(f) /\ f.args.method = "relogin" /\ f.pc = "call") => logins.ever

\* the frames of both threads
AllFrames ==
    {stack[i] : i \in DOMAIN stack} \cup {other[i] : i \in DOMAIN other}

\* a relogin has reset the client's settings and its provider login has not
\* completed
Renewing(f) ==
    /\ f.fn = "login"
    /\ f.args.method = "relogin"
    /\ f.pc = "L_login_relogin"

\* C18: when the get_post_content calls on an instance are serialized, no
\* remote content call is ever issued while a relogin is between its
\* settings reset and the end of its provider login (two concurrent calls
\* can reach that interleaving: C18_Witness).
C18_SerializedNoRace ==
    ~shared =>
      /\ \A f \in AllFrames : ~f.raced
      /\ \A f \in AllFrames, g \in AllFrames :
           ~(Renewing(f) /\ IsFetch(g)
               /\ g.pc \in {"F_resolve", "F_info", "F_download", "F_list"})

\* two concurrent calls: the relogin of one call has reset the client's
\* settings and waits for the provider, and the other call has issued
\* media_info against that client
C18_Witness ==
    /\ shared
    /\ \E i \in DOMAIN other : Renewing(other[i])
    /\ Len(other) = 2
    /\ IsFetch(other[1])
    /\ Len(stack) = 1
    /\ IsFetch(Top)
    /\ Top.raced
    /\ client.auth = 0
    /\ Len(Top.called) >= 2
    /\ Top.called[2] = "media_info"

\* the failures whose except clause calls login
LoginRecovered == {"LoginRequired", "ChallengeRequired", "PleaseWaitFewMinutes"}

\* C19: the second invocation is conditional on the recovery login
\* returning.  When the first attempt of get_post_content raised
\* LoginRequired, ChallengeRequired or PleaseWaitFewMinutes and the recovery
\* login raised, the body has run exactly once, nothing follows the login's
\* failure, and the exception of the call is the login's; a second
\* invocation after such a failure follows a recovery login that returned.
C19_RetryOnlyIfRecovered ==
    \A i \in DOMAIN stack :
      LET f == stack[i] IN
      (IsFetch(f) /\ f.exc1 \in LoginRecovered) =>
        /\ Count(f.ev, "login_raised") >= 1 =>
             /\ Count(f.ev, "body") = 1
             /\ Count(f.ev, "login_returned") = 0
             /\ Count(f.ev, "login_raised") = 1
             /\ LastEvent(f).t = "login_raised"
             /\ f.pc = "raised"
             /\ f.exc = LastEvent(f).m
        /\ Count(f.ev, "body") = 2 =>
             /\ Count(f.ev, "login_returned") = 1
             /\ Count(f.ev, "login_raised") = 0
        /\ (i < Len(stack) /\ stack[i + 1].pc = "raised" /\ f.pc = "await") =>
             Count(f.ev, "body") = 1

\* the first attempt of a fetch raised ChallengeRequired, its recovery login
\* ran its body and raised an exception of another class, and the fetch
\* ended with that exception after one invocation of its body
C19_Witness ==
    /\ phase = "fetching"
    /\ Len(stack) = 1
    /\ IsFetch(Top)
    /\ Top.pc = "raised"
    /\ Top.exc1 = "ChallengeRequired"
    /\ Top.exc = "Exception"
    /\ Count(Top.ev, "body") = 1
    /\ LastEvent(Top) = EvLoginRaised("Exception")

\* the constructor's login has not yet reached its branch: nothing has
\* loaded or written the session file
NotYetEstablished ==
    \/ phase = "new"
    \/ /\ phase = "constructing"
       /\ Len(stack) = 1
       /\ stack[1].pc \in {"call", "L_branch"}
       /\ stack[1].attempt = 1

\* C20: once the first load or dump of the session file has happened, the
\* device identity (uuids) in the client's settings equals the one in the
\* session file, in particular when a login call ends, whatever the login
\* methods and failures were; across every login call the identity in the
\* file, and the established identity in the client, keep their value.
C20_DeviceIdentityStable ==
    /\ (file.exists /\ client.uuids # file.uuids) => NotYetEstablished
    /\ \A i \in DOMAIN stack :
         LET f == stack[i] IN
         IsLogin(f) =>
           /\ f.preFile.exists =>
                /\ file.exists
                /\ file.uuids = f.preFile.uuids
           /\ (Ended(f) /\ file.exists) => client.uuids = file.uuids
           /\ (Ended(f) /\ f.preFile.exists /\ f.preUuids = f.preFile.uuids) =>
                client.uuids = f.preUuids
           /\ (Ended(f) /\ ~f.preFile.exists) => client.uuids = f.preUuids

\* a relogin called by the recovery of a fetch has returned on its second
\* attempt with a new session, and the identity in the client and in the
\* file is the one both held before the call
C20_Witness ==
    /\ phase = "fetching"
    /\ Len(stack) = 2
    /\ IsLogin(Top)
    /\ Top.args.method = "relogin"
    /\ Top.pc = "returned"
    /\ Top.attempt = 2
    /\ Top.preFile.exists
    /\ file.auth # Top.preFile.auth
    /\ client.uuids = Top.preUuids
    /\ file.uuids = Top.preFile.uuids
    /\ client.uuids = file.uuids

====
